---- MODULE Spec2Model ----
(***************************************************************************)
(* A model of the .SEA decryption of OpenRCT2, src/openrct2/rct2/         *)
(* SeaDecrypt.cpp: GetEncryptionKey, CreateMask, Decrypt and DecryptSea.   *)
(*                                                                         *)
(* A 32-bit machine word is held as its two 16-bit halves, and its         *)
(* arithmetic (shifts, rotations, exclusive or, addition and subtraction   *)
(* modulo 2^32) is done on the halves.                                     *)
(* Buffers (the file, the vector `data`, the mask) are sequences of bytes: *)
(* the byte the code finds at offset k is element k + 1.                   *)
(***************************************************************************)
EXTENDS Integers, Sequences, FiniteSets, TLC

\* ------------------------------------------------------------------------
\* Program constants
\* ------------------------------------------------------------------------

\* constexpr int32_t MASK_SIZE = 0x1000;
MASK_SIZE == 4096

\* sizeof(checksum): the trailer DecryptSea cuts off
CHECKSUM_SIZE == 4

\* ------------------------------------------------------------------------
\* Bounds of the model
\* ------------------------------------------------------------------------

\* DecryptSea is run on every file length 0..MaxShortLen ...
MaxShortLen == 6
\* ... and on one long file, long enough for the rolling indices b and c to
\* pass MASK_SIZE and wrap (7 * 586 > 4096, 3 * 1366 > 4096).
LongLen == 1400
\* Mask sizes 1..MaxMaskSize of the generalised mask loop (SpecMaskSize).
MaxMaskSize == 13
\* A store past the end of the mask is undefined behaviour; the model follows
\* a run-away write pointer this many bytes past the end and then stops.
MaxOverrun == 6
\* File names of up to MaxNameLen bytes for the key derivation (SpecKey).
MaxNameLen == 3
\* Buffers of up to MaxOrderLen bytes are decoded in every order of their
\* positions.
MaxOrderLen == 4
\* The byte transform is inverted on all of 0..255 at the first
\* FullBytePositions positions of a buffer.
FullBytePositions == 64

\* ------------------------------------------------------------------------
\* 32-bit words
\* ------------------------------------------------------------------------

\* A word is held as its two 16-bit halves.
HALF == 2 ^ 16

Byte == 0..255

Pow2(k) == 2 ^ k

W(hi, lo) == [hi |-> hi, lo |-> lo]

\* The two's complement bits of an int (-2^31 <= v < 2^31); for 0 <= v it is
\* also the value of the corresponding uint32_t.  \div and % round down.
IntToWord(v) == W((v \div HALF) % HALF, v % HALF)

\* A uint32_t written as its four bytes, most significant first.
WordFromBytes(b3, b2, b1, b0) == W(b3 * 256 + b2, b1 * 256 + b0)

\* Bit by bit on the low n bits of p and q: op[<<bit of p, bit of q>>].
RECURSIVE BitOp(_, _, _, _)
BitOp(op, p, q, n) ==
    IF n = 0 THEN 0
    ELSE op[<<p % 2, q % 2>>] + 2 * BitOp(op, p \div 2, q \div 2, n - 1)

XorBit == [pq \in {0, 1} \X {0, 1} |-> (pq[1] + pq[2]) % 2]
OrBit == [pq \in {0, 1} \X {0, 1} |-> IF pq[1] + pq[2] > 0 THEN 1 ELSE 0]

\* x ^ y
Xor32(x, y) == W(BitOp(XorBit, x.hi, y.hi, 16), BitOp(XorBit, x.lo, y.lo, 16))

\* x | y
Or32(x, y) == W(BitOp(OrBit, x.hi, y.hi, 16), BitOp(OrBit, x.lo, y.lo, 16))

\* x << n on uint32_t, 0 <= n <= 32
Shl32(x, n) ==
    IF n >= 32 THEN W(0, 0)
    ELSE IF n >= 16 THEN W((x.lo * Pow2(n - 16)) % HALF, 0)
    ELSE W(((x.hi * Pow2(n)) % HALF) + (x.lo \div Pow2(16 - n)),
           (x.lo * Pow2(n)) % HALF)

\* x >> n on uint32_t, 0 <= n <= 32
Shr32(x, n) ==
    IF n >= 32 THEN W(0, 0)
    ELSE IF n >= 16 THEN W(0, x.hi \div Pow2(n - 16))
    ELSE W(x.hi \div Pow2(n),
           (x.lo \div Pow2(n)) + ((x.hi % Pow2(n)) * Pow2(16 - n)))

\* x & 0xFF, as a number
AndFF(x) == x.lo % 256

\* x + y modulo 2^32
Add32(x, y) ==
    LET lo == x.lo + y.lo
    IN  W((x.hi + y.hi + (lo \div HALF)) % HALF, lo % HALF)

\* x - y modulo 2^32
Sub32(x, y) ==
    LET lo == x.lo - y.lo
    IN  W((x.hi - y.hi - (IF lo < 0 THEN 1 ELSE 0)) % HALF, lo % HALF)

\* rol32(x, shift) = (x << shift) | (x >> (32 - shift))
rol32(x, shift) == Or32(Shl32(x, shift), Shr32(x, 32 - shift))

ZeroWord == IntToWord(0)

\* ------------------------------------------------------------------------
\* Buffers
\* ------------------------------------------------------------------------

\* buf[k] of the code, 0 <= k < Len(buf)
At(buf, k) == buf[k + 1]
Inside(buf, k) == 0 <= k /\ k < Len(buf)
\* n zero bytes (as an explicit sequence)
Zeros(n) == SubSeq([j \in 1..n |-> 0], 1, n)
Prefix(buf, n) == SubSeq(buf, 1, n)

\* The buffer after the stores *dst8++ = bytes[1], *dst8++ = bytes[2], ...
\* with dst8 at offset off.  Offsets past the end are outside the allocation
\* (see `overrun`) and leave the buffer as it is.
RECURSIVE Store(_, _, _)
Store(buf, off, bytes) ==
    IF bytes = <<>> THEN buf
    ELSE Store(IF Inside(buf, off) THEN [buf EXCEPT ![off + 1] = Head(bytes)] ELSE buf,
               off + 1, Tail(bytes))

\* ------------------------------------------------------------------------
\* GetEncryptionKey
\* ------------------------------------------------------------------------

\* fileName[i] is a char.  Converted to uint32_t for the ^, a char of a build
\* with signed char (x86; sc is TRUE) is sign-extended, one of a build with
\* unsigned char (ARM; sc is FALSE) is zero-extended.
CharToWord(ch, sc) ==
    IntToWord(IF sc /\ ch >= 128 THEN ch - 256 ELSE ch)

\* s = (s + (s << 5)) ^ fileName[i]
KeyStep(s, ch, sc) ==
    Xor32(Add32(s, Shl32(s, 5)), CharToWord(ch, sc))

\* The loop over the characters in the order `chars` gives them.
RECURSIVE KeyFold(_, _, _)
KeyFold(s, chars, sc) ==
    IF chars = <<>> THEN s
    ELSE KeyFold(KeyStep(s, Head(chars), sc), Tail(chars), sc)

Reverse(s) == [j \in 1..Len(s) |-> s[Len(s) + 1 - j]]

GetEncryptionKey(fileName, sc) ==
    [Seed0 |-> KeyFold(ZeroWord, Reverse(fileName), sc),
     Seed1 |-> KeyFold(ZeroWord, fileName, sc)]

ZeroKey == [Seed0 |-> ZeroWord, Seed1 |-> ZeroWord]

\* ------------------------------------------------------------------------
\* CreateMask
\* ------------------------------------------------------------------------

\* 0xF7654321
MaskXor == WordFromBytes(247, 101, 67, 33)

\* seed0 = rol32(s1, 25) + s0, with s0 = seed0 and s1 = seed1 ^ 0xF7654321;
\* sd0 and sd1 are seed0 and seed1 at the start of the round
NextSeed0(sd0, sd1) == Add32(rol32(Xor32(sd1, MaskXor), 25), sd0)
\* NextSeed1 rotating the round's starting seed1 instead of s0.
NextSeed1_FromSeed1(sd0, sd1) == rol32(sd1, 29)

\* seed1 = rol32(s0, 29)
NextSeed1(sd0, sd1) == rol32(sd0, 29)

\* RoundBytes with the first byte taken from seed0 after its update instead
\* of from s0.
RoundBytes_UpdatedSeed(sd0, sd1, n) ==
    LET s0 == sd0
        e1 == <<AndFF(Shr32(NextSeed0(sd0, sd1), 3))>>
        e2 == <<AndFF(Shr32(s0, 11))>>
        e3 == <<AndFF(Shr32(s0, 19))>>
        e4 == <<AndFF(Shr32(NextSeed1(sd0, sd1), 24))>>
    IN  IF n >= 4 THEN e1 \o e2 \o e3 \o e4
        ELSE IF n >= 3 THEN e1 \o e2 \o e3
        ELSE IF n >= 2 THEN e1 \o e2
        ELSE e1

\* The bytes one round stores through dst8, in order, when it starts with
\* seed0 = sd0, seed1 = sd1 and n = i bytes remaining (n > 0).
RoundBytes(sd0, sd1, n) ==
    LET s0 == sd0
        e1 == <<AndFF(Shr32(s0, 3))>>
        e2 == <<AndFF(Shr32(s0, 11))>>
        e3 == <<AndFF(Shr32(s0, 19))>>
        e4 == <<AndFF(Shr32(NextSeed1(sd0, sd1), 24))>>
    IN  IF n >= 4 THEN e1 \o e2 \o e3 \o e4
        ELSE IF n >= 3 THEN e1 \o e2 \o e3
        ELSE IF n >= 2 THEN e1 \o e2
        ELSE e1

\* NextCount with i -= 3 for i -= 4.
NextCount_Three(n) == IF n >= 4 THEN n - 3 ELSE n

\* The remaining-byte counter i after a round that starts with i = n.
NextCount(n) == IF n >= 4 THEN n - 4 ELSE n

\* The locals of CreateMask after one more iteration of while (i > 0).
MaskRound(st) ==
    LET bytes == RoundBytes(st.seed0, st.seed1, st.i)
    IN  [seed0 |-> NextSeed0(st.seed0, st.seed1),
         seed1 |-> NextSeed1(st.seed0, st.seed1),
         i |-> NextCount(st.i),
         dst |-> st.dst + Len(bytes),
         mask |-> Store(st.mask, st.dst, bytes)]

\* ... after n more iterations, or fewer when the loop ends before.
RECURSIVE MaskRounds(_, _)
MaskRounds(st, n) ==
    IF n = 0 \/ ~(st.i > 0) THEN st
    ELSE IF n = 1 THEN MaskRound(st)
    ELSE MaskRounds(MaskRounds(st, n \div 2), n - (n \div 2))

\* The locals of CreateMask(k) before the loop.
MaskStart(k, size) ==
    [seed0 |-> k.Seed0, seed1 |-> k.Seed1, i |-> size, dst |-> 0,
     mask |-> Zeros(size)]

\* CreateMask(k): the loop run until i > 0 fails, which takes no more than
\* MASK_SIZE iterations.
CreateMask(k) == MaskRounds(MaskStart(k, MASK_SIZE), MASK_SIZE).mask

\* ------------------------------------------------------------------------
\* Decrypt
\* ------------------------------------------------------------------------

\* IndexB without its % MASK_SIZE, and StepB with 8 for 7.
IndexB_NoWrap(a0) == a0 + 1
StepB_Eight(a0) == a0 + 8

\* auto a = b % MASK_SIZE;
IndexA(b0) == b0 % MASK_SIZE
\* c = c % MASK_SIZE;
IndexC(c0) == c0 % MASK_SIZE
\* b = (a + 1) % MASK_SIZE;
IndexB(a0) == (a0 + 1) % MASK_SIZE
\* c += 3;
StepC(c0) == c0 + 3
\* b = a + 7;
StepB(a0) == a0 + 7

\* Transform with mask8[a] added before the exclusive or.
Transform_AddFirst(x, mb, mc, ma) ==
    AndFF(Xor32(Add32(IntToWord(x - mb), IntToWord(ma)), IntToWord(mc)))

\* Transform with | for ^.
Transform_Or(x, mb, mc, ma) ==
    AndFF(Add32(Or32(IntToWord(x - mb), IntToWord(mc)), IntToWord(ma)))

\* (((data[i] - mask8[b]) ^ mask8[c]) + mask8[a]) & 0xFF: the uint8_t operands
\* are promoted to int, so the difference may be negative and the exclusive
\* or acts on its two's complement bits.
Transform(x, mb, mc, ma) ==
    AndFF(Add32(Xor32(IntToWord(x - mb), IntToWord(mc)), IntToWord(ma)))

\* What a read outside a buffer may deliver.
GarbageBytes == {0, 255}

\* The three offsets one iteration reads mask8 at, as <<a, b, c>>.
MaskOffsets(st) ==
    LET a1 == IndexA(st.b) IN <<a1, IndexB(a1), IndexC(st.c)>>

\* The locals of Decrypt after one more iteration of its loop over mask m;
\* g is what a read outside m delivers.
DecryptRound(st, m, g) ==
    LET o == MaskOffsets(st)
        rd(k) == IF Inside(m, k) THEN At(m, k) ELSE g
    IN  [a |-> o[1], b |-> StepB(o[1]), c |-> StepC(o[3]), idx |-> st.idx + 1,
         data |-> [st.data EXCEPT
                     ![st.idx + 1] = Transform(At(st.data, st.idx),
                                               rd(o[2]), rd(o[3]), rd(o[1]))]]

\* ... after n more iterations, or fewer when the loop ends before.
RECURSIVE DecryptRounds(_, _, _)
DecryptRounds(st, m, n) ==
    IF n = 0 \/ ~(st.idx < Len(st.data)) THEN st
    ELSE IF n = 1 THEN DecryptRound(st, m, 0)
    ELSE DecryptRounds(DecryptRounds(st, m, n \div 2), m, n - (n \div 2))

\* Decrypt's loop over buf with mask m, run to its end.
Decrypt(buf, m) ==
    DecryptRounds([a |-> 0, b |-> 0, c |-> 0, idx |-> 0, data |-> buf], m,
                  Len(buf)).data

\* ------------------------------------------------------------------------
\* DecryptSea
\* ------------------------------------------------------------------------

\* The directory separator
SEP == 47

\* Filename that keeps the directories.
Filename_WholePath(p) == p

\* path.filename(): what follows the last separator.
RECURSIVE Filename(_)
Filename(p) ==
    IF p = <<>> THEN <<>>
    ELSE IF p[Len(p)] = SEP THEN <<>>
    ELSE Filename(SubSeq(p, 1, Len(p) - 1)) \o <<p[Len(p)]>>

\* InputSize that cuts off one byte too few.
InputSize_ThreeOff(size) == Sub32(IntToWord(size), IntToWord(CHECKSUM_SIZE - 1))

\* size_t inputSize = data.size() - 4, in the unsigned arithmetic of a 32-bit
\* size_t (a 64-bit one wraps the same way, 32 bits higher).
InputSize(size) == Sub32(IntToWord(size), IntToWord(CHECKSUM_SIZE))

\* A size_t up to PTRDIFF_MAX, as a number; vector::max_size() is no larger.
FitsMaxSize(w) == w.hi < HALF \div 2
WordToInt(w) == w.hi * HALF + w.lo

\* Whether the len bytes at offset off lie inside a buffer of `size` bytes.
InBuffer(off, len, size) == FitsMaxSize(off) /\ WordToInt(off) + len <= size

\* data.resize(n): the first n elements, zeros where there were none.
Resize(buf, n) == [j \in 1..n |-> IF j <= Len(buf) THEN buf[j] ELSE 0]

\* ------------------------------------------------------------------------
\* State
\* ------------------------------------------------------------------------

VARIABLES
    path,        \* DecryptSea's argument, a sequence of bytes
    file,        \* the bytes of the file at path
    signedChar,  \* whether char is signed in this build
    pc,          \* where the program is
    key,         \* DecryptSea: key; CreateMask: key
    data,        \* DecryptSea: data, which Decrypt works on
    inputSize,   \* DecryptSea: inputSize
    checksum,    \* DecryptSea: checksum
    seed0,       \* CreateMask: seed0
    seed1,       \* CreateMask: seed1
    i,           \* CreateMask: i, the remaining-byte counter
    dst,         \* CreateMask: dst8 - result.get()
    mask,        \* CreateMask: the array result points to
    rounds,      \* CreateMask: iterations of the while loop so far
    a,           \* Decrypt: a
    b,           \* Decrypt: b
    c,           \* Decrypt: c
    idx,         \* Decrypt: i
    overrun,     \* whether memory outside a buffer has been read or written
    result,      \* what DecryptSea returned, when it has
    sample,      \* the operands <<x, mb, mc, ma>> of one byte transform
    stored       \* the byte stored for them

vars == <<path, file, signedChar, pc, key, data, inputSize, checksum, seed0,
          seed1, i, dst, mask, rounds, a, b, c, idx, overrun, result, sample,
          stored>>

inputVars == <<path, file, signedChar>>
seaVars == <<key, data, inputSize, checksum, result>>
maskVars == <<seed0, seed1, i, dst, mask, rounds>>
loopVars == <<a, b, c, idx>>
sampleVars == <<sample, stored>>

NoResult == <<"none">>

\* The locals of functions not yet entered.
SeaFresh ==
    /\ data = <<>>
    /\ inputSize = ZeroWord
    /\ checksum = ZeroWord
    /\ result = NoResult
MaskFresh ==
    /\ seed0 = ZeroWord
    /\ seed1 = ZeroWord
    /\ i = 0
    /\ dst = 0
    /\ mask = <<>>
    /\ rounds = 0
LoopFresh ==
    /\ a = 0
    /\ b = 0
    /\ c = 0
    /\ idx = 0
SampleFresh ==
    /\ sample = <<0, 0, 0, 0>>
    /\ stored = -1

\* ------------------------------------------------------------------------
\* Inputs of DecryptSea
\* ------------------------------------------------------------------------

\* "x" and the UTF-8 bytes of "e-acute"
Names == {<<120>>, <<195, 169>>}
\* no directory, and "d/"
Dirs == {<<>>, <<100, SEP>>}
Paths == {d \o nm : d \in Dirs, nm \in Names}

Trailers == {<<0, 0, 0, 0>>, <<239, 190, 173, 222>>}

\* n bytes that run through the byte values
Payload(n) == [j \in 1..n |-> (37 * j + 163) % 256]

\* Files shorter than the trailer, and files of a payload and a trailer
ShortFiles ==
    {Payload(n) : n \in 0..(CHECKSUM_SIZE - 1)}
    \cup {Payload(n) \o t : n \in 0..MaxShortLen, t \in Trailers}
LongFile == Payload(LongLen) \o <<1, 2, 3, 4>>

\* CreateMask for the keys of these names, computed once.
SeaKeys == {GetEncryptionKey(nm, sc) : nm \in Names, sc \in BOOLEAN}
MaskTable == {<<k, CreateMask(k)>> : k \in SeaKeys}

\* Decrypt: auto mask = CreateMask(key); mask8 is its array.
Mask8(k) ==
    IF k \in SeaKeys THEN (CHOOSE p \in MaskTable : p[1] = k)[2] ELSE CreateMask(k)

\* Every short file under every path, and the long file under one of them.
Init ==
    /\ path \in Paths
    /\ signedChar \in BOOLEAN
    /\ file \in ShortFiles \cup {LongFile}
    /\ file = LongFile => path = <<100, SEP, 195, 169>>
    /\ pc = "DecryptSea"
    /\ key = ZeroKey
    /\ SeaFresh
    /\ MaskFresh
    /\ LoopFresh
    /\ overrun = FALSE
    /\ SampleFresh

\* ------------------------------------------------------------------------
\* DecryptSea, step by step
\* ------------------------------------------------------------------------

\* auto key = GetEncryptionKey(path.filename().u8string());
DeriveKey ==
    /\ pc = "DecryptSea"
    /\ key' = GetEncryptionKey(Filename(path), signedChar)
    /\ pc' = "ReadAllBytes"
    /\ UNCHANGED <<inputVars, data, inputSize, checksum, result, maskVars,
                   loopVars, overrun, sampleVars>>

\* auto data = File::ReadAllBytes(path.u8string());
ReadAllBytes ==
    /\ pc = "ReadAllBytes"
    /\ data' = file
    /\ pc' = "inputSize"
    /\ UNCHANGED <<inputVars, key, inputSize, checksum, result, maskVars,
                   loopVars, overrun, sampleVars>>

\* size_t inputSize = data.size() - 4;
ComputeInputSize ==
    /\ pc = "inputSize"
    /\ inputSize' = InputSize(Len(data))
    /\ pc' = "memcpy"
    /\ UNCHANGED <<inputVars, key, data, checksum, result, maskVars,
                   loopVars, overrun, sampleVars>>

\* std::memcpy(&checksum, data.data() + inputSize, sizeof(checksum));
\* Outside the vector the read is undefined: it delivers anything or faults.
CopyChecksum ==
    /\ pc = "memcpy"
    /\ IF InBuffer(inputSize, CHECKSUM_SIZE, Len(data))
       THEN LET off == WordToInt(inputSize)
            IN  /\ checksum' = WordFromBytes(At(data, off + 3), At(data, off + 2),
                                             At(data, off + 1), At(data, off))
                /\ pc' = "resize"
                /\ UNCHANGED overrun
       ELSE /\ overrun' = TRUE
            /\ \E g \in GarbageBytes : checksum' = WordFromBytes(g, g, g, g)
            /\ pc' \in {"resize", "fault"}
    /\ UNCHANGED <<inputVars, key, data, inputSize, result, maskVars,
                   loopVars, sampleVars>>

\* data.resize(inputSize); beyond max_size() it throws std::length_error,
\* which nothing in DecryptSea catches.
ResizeData ==
    /\ pc = "resize"
    /\ IF FitsMaxSize(inputSize)
       THEN /\ data' = Resize(data, WordToInt(inputSize))
            /\ pc' = "Decrypt"
       ELSE /\ pc' = "length_error"
            /\ UNCHANGED data
    /\ UNCHANGED <<inputVars, key, inputSize, checksum, result, maskVars,
                   loopVars, overrun, sampleVars>>

\* Decrypt(data, key) up to its loop: the mask is made (Mask8(key)),
\* uint32_t b = 0; uint32_t c = 0; size_t i = 0
DecryptEnter ==
    /\ pc = "Decrypt"
    /\ b' = 0
    /\ c' = 0
    /\ idx' = 0
    /\ pc' = "DecryptLoop"
    /\ UNCHANGED <<inputVars, seaVars, maskVars, a, overrun, sampleVars>>

\* One iteration of for (size_t i = 0; i < data.size(); i++).
DecryptStep ==
    /\ pc = "DecryptLoop"
    /\ idx < Len(data)
    /\ LET st == [a |-> a, b |-> b, c |-> c, idx |-> idx, data |-> data]
           m == Mask8(key)
           o == MaskOffsets(st)
           inside == \A k \in {o[1], o[2], o[3]} : Inside(m, k)
       IN  /\ \E g \in (IF inside THEN {0} ELSE GarbageBytes) :
                LET nx == DecryptRound(st, m, g)
                IN  /\ data' = nx.data
                    /\ a' = nx.a
                    /\ b' = nx.b
                    /\ c' = nx.c
                    /\ idx' = nx.idx
           /\ overrun' = (overrun \/ ~inside)
    /\ UNCHANGED <<inputVars, key, inputSize, checksum, result, maskVars, pc,
                   sampleVars>>

\* The loop ends, Decrypt returns; DecryptSea: return data;
DecryptReturn ==
    /\ pc = "DecryptLoop"
    /\ ~(idx < Len(data))
    /\ result' = data
    /\ pc' = "done"
    /\ UNCHANGED <<inputVars, key, data, inputSize, checksum, maskVars,
                   loopVars, overrun, sampleVars>>

Next ==
    \/ DeriveKey
    \/ ReadAllBytes
    \/ ComputeInputSize
    \/ CopyChecksum
    \/ ResizeData
    \/ DecryptEnter
    \/ DecryptStep
    \/ DecryptReturn

Spec == Init /\ [][Next]_vars


\* ------------------------------------------------------------------------
\* GetEncryptionKey alone, on every short name over a few byte values
\* ------------------------------------------------------------------------

\* 'A', 'x', and the bytes 0x80 and 0xFF of a name that is not ASCII
NameBytes == {65, 120, 128, 255}

RECURSIVE NamesUpTo(_)
NamesUpTo(n) ==
    IF n = 0 THEN {<<>>}
    ELSE LET shorter == NamesUpTo(n - 1)
         IN  shorter \cup {nm \o <<ch>> : nm \in shorter, ch \in NameBytes}

InitKey ==
    /\ path \in NamesUpTo(MaxNameLen)
    /\ file = <<>>
    /\ signedChar \in BOOLEAN
    /\ pc = "DecryptSea"
    /\ key = ZeroKey
    /\ SeaFresh
    /\ MaskFresh
    /\ LoopFresh
    /\ overrun = FALSE
    /\ SampleFresh

NextKey == DeriveKey

SpecKey == InitKey /\ [][NextKey]_vars

\* ------------------------------------------------------------------------
\* CreateMask, step by step, on a few keys
\* ------------------------------------------------------------------------

AllOnes == WordFromBytes(255, 255, 255, 255)

Keys == {ZeroKey,
         [Seed0 |-> AllOnes, Seed1 |-> AllOnes],
         [Seed0 |-> WordFromBytes(18, 52, 86, 120), Seed1 |-> WordFromBytes(0, 0, 0, 1)],
         GetEncryptionKey(<<120>>, FALSE)}

InitMask ==
    /\ path = <<>>
    /\ file = <<>>
    /\ signedChar = FALSE
    /\ pc = "CreateMask"
    /\ key \in Keys
    /\ SeaFresh
    /\ MaskFresh
    /\ LoopFresh
    /\ overrun = FALSE
    /\ SampleFresh

\* The locals of CreateMask as a record, and back.
MaskLocals == [seed0 |-> seed0, seed1 |-> seed1, i |-> i, dst |-> dst, mask |-> mask]
SetMaskLocals(st) ==
    /\ seed0' = st.seed0
    /\ seed1' = st.seed1
    /\ i' = st.i
    /\ dst' = st.dst
    /\ mask' = st.mask

\* auto result = std::make_unique<uint8_t[]>(MASK_SIZE); ... int32_t i = MASK_SIZE;
CreateMaskEnter ==
    /\ pc = "CreateMask"
    /\ SetMaskLocals(MaskStart(key, MASK_SIZE))
    /\ rounds' = 0
    /\ pc' = "CreateMaskLoop"
    /\ UNCHANGED <<inputVars, seaVars, loopVars, overrun, sampleVars>>

\* One iteration of while (i > 0).  A store past the end of the array is
\* undefined; the model follows the loop MaxOverrun bytes past it.
CreateMaskRound ==
    /\ pc = "CreateMaskLoop"
    /\ i > 0
    /\ dst < Len(mask) + MaxOverrun
    /\ LET st == MaskRound(MaskLocals)
       IN  /\ SetMaskLocals(st)
           /\ overrun' = (overrun \/ st.dst > Len(mask))
    /\ rounds' = rounds + 1
    /\ UNCHANGED <<inputVars, seaVars, loopVars, pc, sampleVars>>

\* return result;
CreateMaskReturn ==
    /\ pc = "CreateMaskLoop"
    /\ ~(i > 0)
    /\ pc' = "CreateMaskDone"
    /\ UNCHANGED <<inputVars, seaVars, maskVars, loopVars, overrun, sampleVars>>

NextMask == CreateMaskEnter \/ CreateMaskRound \/ CreateMaskReturn

SpecMask == InitMask /\ [][NextMask]_vars

\* ------------------------------------------------------------------------
\* The loop of CreateMask for an array of any size 1..MaxMaskSize: a
\* CreateMask whose MASK_SIZE is `size`, at its while
\* ------------------------------------------------------------------------

InitMaskSize ==
    /\ path = <<>>
    /\ file = <<>>
    /\ signedChar = FALSE
    /\ pc = "CreateMaskLoop"
    /\ key \in Keys
    /\ SeaFresh
    /\ \E size \in 1..MaxMaskSize :
         LET st == MaskStart(key, size)
         IN  /\ seed0 = st.seed0
             /\ seed1 = st.seed1
             /\ i = st.i
             /\ dst = st.dst
             /\ mask = st.mask
    /\ rounds = 0
    /\ LoopFresh
    /\ overrun = FALSE
    /\ SampleFresh

NextMaskSize == CreateMaskRound \/ CreateMaskReturn

SpecMaskSize == InitMaskSize /\ [][NextMaskSize]_vars

\* ------------------------------------------------------------------------
\* The byte transform alone, on operands around the ends and the middle of
\* the byte range
\* ------------------------------------------------------------------------

SampleBytes == {0, 1, 2, 85, 127, 128, 170, 254, 255}

InitTransform ==
    /\ path = <<>>
    /\ file = <<>>
    /\ signedChar = FALSE
    /\ pc = "Transform"
    /\ sample \in SampleBytes \X SampleBytes \X SampleBytes \X SampleBytes
    /\ stored = -1
    /\ key = ZeroKey
    /\ SeaFresh
    /\ MaskFresh
    /\ LoopFresh
    /\ overrun = FALSE

\* data[i] = (((data[i] - mask8[b]) ^ mask8[c]) + mask8[a]) & 0xFF;
ApplyTransform ==
    /\ pc = "Transform"
    /\ stored' = Transform(sample[1], sample[2], sample[3], sample[4])
    /\ pc' = "Stored"
    /\ UNCHANGED <<inputVars, seaVars, maskVars, loopVars, overrun, sample>>

NextTransform == ApplyTransform

SpecTransform == InitTransform /\ [][NextTransform]_vars


\* ========================================================================
\* Claims
\* ========================================================================

\* The byte at offset j of the plaintext, from the byte x at offset j of the
\* ciphertext, j and the mask m alone.
Plain(x, j, m) ==
    Transform(x, At(m, (7 * j + 1) % MASK_SIZE), At(m, (3 * j) % MASK_SIZE),
              At(m, (7 * j) % MASK_SIZE))

\* The first n bytes of the file: what is before the trailer when
\* n = Len(file) - CHECKSUM_SIZE.
Ciphertext == Prefix(file, Len(file) - CHECKSUM_SIZE)

\* ------------------------------------------------------------------------
\* C1: a file of fewer than 4 bytes is rejected with InvalidInputSize before
\* the payload size is computed from it (so that it cannot wrap), before any
\* read of the buffer and before any resize, and nothing is returned.
C1_UndersizedRejected ==
    Len(file) < CHECKSUM_SIZE =>
        /\ pc \in {"DecryptSea", "ReadAllBytes", "inputSize", "InvalidInputSize"}
        /\ ~overrun
        /\ result = NoResult

\* ------------------------------------------------------------------------
\* C2: on a file of n >= 4 bytes DecryptSea meets no error, and what it
\* returns is n - 4 bytes long (empty for n = 4) and is Decrypt of the first
\* n - 4 bytes of the file, byte i of it decoded from byte i of the file.
C2_PayloadDecoded ==
    Len(file) >= CHECKSUM_SIZE =>
        /\ pc \notin {"fault", "length_error"}
        /\ ~overrun
        /\ pc = "done" =>
            /\ Len(result) = Len(file) - CHECKSUM_SIZE
            /\ result = Decrypt(Ciphertext, Mask8(key))
            /\ \A j \in 0..(Len(result) - 1) :
                  At(result, j) = Plain(At(file, j), j, Mask8(key))
            /\ Len(file) = CHECKSUM_SIZE => result = <<>>

\* A file with a payload of two bytes has been decoded and returned.
C2_Witness ==
    /\ pc = "done"
    /\ Len(file) = CHECKSUM_SIZE + 2
    /\ Len(result) = 2
    /\ result # Ciphertext


\* ------------------------------------------------------------------------
\* C3: for every key, {0, 0} among them, CreateMask's loop ends after exactly
\* 1024 rounds.  Each round stores its bytes at the offsets that follow the
\* last one stored (dst8 only ever moves up by one per store, from 0), so with
\* 4 stores in each round and dst8 at MASK_SIZE at the end every offset
\* 0..4095 has been stored to once, in ascending order, and no store has gone
\* outside the array.
C3_MaskFilledOnce ==
    /\ ~overrun
    /\ pc \in {"CreateMaskLoop", "CreateMaskDone"} =>
        /\ Len(mask) = MASK_SIZE
        /\ dst = 4 * rounds
        /\ i = MASK_SIZE - dst
        /\ 0 <= i
        /\ dst <= MASK_SIZE
    /\ pc = "CreateMaskDone" =>
        /\ rounds = MASK_SIZE \div 4
        /\ rounds = 1024
        /\ dst = MASK_SIZE

\* CreateMask has returned for the key {0, 0}.
C3_Witness ==
    /\ pc = "CreateMaskDone"
    /\ key = ZeroKey
    /\ rounds = 1024
    /\ dst = MASK_SIZE

\* ------------------------------------------------------------------------
\* One step of the fold s = ((s + (s << 5)) mod 2^32) XOR byte with the byte
\* as its unsigned 8-bit value: s * 33 mod 2^32, its low byte XORed with ch.
UnsignedStep(s, ch) ==
    LET t == Add32(s, Shl32(s, 5))
    IN  W(t.hi, (t.lo - (t.lo % 256)) + BitOp(XorBit, t.lo % 256, ch, 8))

RECURSIVE UnsignedFold(_, _)
UnsignedFold(s, chars) ==
    IF chars = <<>> THEN s
    ELSE UnsignedFold(UnsignedStep(s, Head(chars)), Tail(chars))

\* C4: for every name, bytes of 0x80 and above included, Seed0 is the fold
\* s = ((s + (s << 5)) mod 2^32) XOR byte over the bytes from the last to the
\* first and Seed1 the same fold from the first to the last, both from 0, each
\* byte entering as its unsigned 8-bit value, so that the XOR changes the low
\* 8 bits of s only; the empty name gives {0, 0} and a name of one byte gives
\* Seed0 = Seed1 = that byte.
C4_UnsignedFold ==
    pc = "ReadAllBytes" =>
        /\ key.Seed0 = UnsignedFold(ZeroWord, Reverse(path))
        /\ key.Seed1 = UnsignedFold(ZeroWord, path)
        /\ path = <<>> => key = ZeroKey
        /\ Len(path) = 1 => key.Seed0 = W(0, path[1]) /\ key.Seed1 = W(0, path[1])

\* ------------------------------------------------------------------------
\* C5, as claimed: with the key {0, 0} the first byte of the mask is
\* ((RotateLeft(0 XOR 0xF7654321, 25) mod 2^32) >> 3) AND 0xFF.
C5_FirstByteFromUpdatedSeed ==
    (key = ZeroKey /\ pc \in {"CreateMaskLoop", "CreateMaskDone"} /\ rounds >= 1) =>
        At(mask, 0) = AndFF(Shr32(rol32(Xor32(ZeroWord, MaskXor), 25), 3))

\* C5, amended: with the key {0, 0} the first byte of the mask is
\* (Seed0 >> 3) AND 0xFF = 0, taken from seed0 as the first round finds it;
\* ((RotateLeft(0 XOR 0xF7654321, 25) mod 2^32) >> 3) AND 0xFF = 0x50 is what
\* seed0 gives after the first round's update, and is the first byte of the
\* second round, mask[4].
C5_FirstByte ==
    (key = ZeroKey /\ pc \in {"CreateMaskLoop", "CreateMaskDone"}) =>
        /\ rounds >= 1 => At(mask, 0) = AndFF(Shr32(key.Seed0, 3)) /\ At(mask, 0) = 0
        /\ rounds >= 2 =>
             /\ At(mask, 4) = AndFF(Shr32(rol32(Xor32(ZeroWord, MaskXor), 25), 3))
             /\ At(mask, 4) = 80

\* Two rounds have run on the key {0, 0}.
C5_Witness ==
    /\ key = ZeroKey
    /\ pc = "CreateMaskLoop"
    /\ rounds = 2
    /\ At(mask, 0) = 0
    /\ At(mask, 4) = 80

Orders(n) == {o \in [1..n -> 0..(n - 1)] : \A j, k \in 1..n : o[j] = o[k] => j = k}

\* buf with the positions of `order` decoded one after the other.
RECURSIVE DecodeInOrder(_, _, _)
DecodeInOrder(buf, order, m) ==
    IF order = <<>> THEN buf
    ELSE DecodeInOrder([buf EXCEPT ![Head(order) + 1] =
                                Plain(At(buf, Head(order)), Head(order), m)],
                       Tail(order), m)

\* C6: the offsets Decrypt reads the mask at for position i depend on i alone:
\* a_i = 7i mod 4096, b_i = (7i + 1) mod 4096, c_i = 3i mod 4096.  So byte i of
\* the output comes from byte i of the input, i and the mask alone, and a
\* decoder that works from these offsets, taking the positions in any order,
\* produces the buffer of the one-pass loop.
C6_OffsetsFromPosition ==
    pc = "DecryptLoop" =>
        LET m == Mask8(key)
            st == [a |-> a, b |-> b, c |-> c, idx |-> idx, data |-> data]
        IN  /\ Len(data) = Len(Ciphertext)
            /\ idx <= Len(data)
            \* the offsets of the iteration to come
            /\ MaskOffsets(st) = <<(7 * idx) % MASK_SIZE, (7 * idx + 1) % MASK_SIZE,
                                   (3 * idx) % MASK_SIZE>>
            \* the iteration just made, and the byte not yet reached
            /\ idx > 0 =>
                 /\ a = (7 * (idx - 1)) % MASK_SIZE
                 /\ At(data, idx - 1) = Plain(At(file, idx - 1), idx - 1, m)
            /\ idx < Len(data) => At(data, idx) = At(file, idx)
            \* the whole buffer, once the loop is through
            /\ idx = Len(data) =>
                 /\ \A j \in 0..(Len(data) - 1) :
                       At(data, j) = Plain(At(file, j), j, m)
                 /\ Len(data) <= MaxOrderLen =>
                       \A o \in Orders(Len(data)) :
                           DecodeInOrder(Ciphertext, o, m) = data

\* The loop is through a buffer of three bytes, decodable in six orders.
C6_Witness ==
    /\ pc = "DecryptLoop"
    /\ idx = Len(data)
    /\ Len(data) = 3
    /\ Cardinality(Orders(3)) = 6
    /\ data # Ciphertext

\* ------------------------------------------------------------------------
\* The output for a base name nm and ciphertext bytes ct.
Decoded(nm, ct, sc) ==
    LET m == Mask8(GetEncryptionKey(nm, sc))
    IN  [j \in 1..Len(ct) |-> Plain(ct[j], j - 1, m)]

\* C7: what DecryptSea returns is a function of the base name of the path and
\* of the bytes of the file before the last 4 (and of the build's char): the
\* key comes from the base name whatever the directories, the 4 trailer bytes
\* are never in the buffer Decrypt works on, and the output is what that name
\* and those bytes give, whatever the trailer and the directories are.
C7_NameAndCiphertextOnly ==
    \A d \in Dirs, nm \in Names :
        path = d \o nm =>
            /\ pc # "DecryptSea" => key = GetEncryptionKey(nm, signedChar)
            /\ pc = "DecryptLoop" =>
                 /\ Len(data) = Len(file) - CHECKSUM_SIZE
                 /\ idx <= Len(file) - CHECKSUM_SIZE
            /\ pc = "done" => result = Decoded(nm, Ciphertext, signedChar)

\* A file under a directory, with a trailer that is not zero, has been
\* decoded.
C7_Witness ==
    /\ pc = "done"
    /\ path = <<100, SEP, 120>>
    /\ Len(file) = CHECKSUM_SIZE + 3
    /\ SubSeq(file, 4, 7) = <<239, 190, 173, 222>>
    /\ Len(result) = 3

\* ------------------------------------------------------------------------
\* C9: at every iteration of Decrypt's loop the three offsets a, b and c the
\* mask is read at are in 0..4095; between iterations the stored b is at most
\* 4095 + 7 and the stored c at most 4095 + 3 (far below 2^32), and they are
\* reduced modulo 4096 before they are next used as offsets.
C9_OffsetsInMask ==
    /\ pc \in {"DecryptLoop", "done"} => ~overrun
    /\ pc = "DecryptLoop" =>
        /\ 0 <= a /\ a < MASK_SIZE
        /\ 0 <= b /\ b <= (MASK_SIZE - 1) + 7
        /\ 0 <= c /\ c <= (MASK_SIZE - 1) + 3
        /\ idx < Len(data) =>
             \A k \in 1..3 :
                LET off == MaskOffsets([a |-> a, b |-> b, c |-> c, idx |-> idx,
                                        data |-> data])[k]
                IN  0 <= off /\ off < MASK_SIZE /\ off < Len(Mask8(key))

\* c is stored unreduced at its greatest, 4095 + 3, after b has been at its
\* greatest, 4095 + 7, and both have wrapped.
C9_Witness ==
    /\ pc = "DecryptLoop"
    /\ c = (MASK_SIZE - 1) + 3
    /\ 7 * idx > (MASK_SIZE - 1) + 7
    /\ idx < Len(data)

\* ------------------------------------------------------------------------
\* C10: for all bytes x, mb, mc, ma the byte Decrypt stores,
\* (((x - mb) XOR mc) + ma) AND 0xFF in int arithmetic where x - mb may be
\* negative, is what the three steps give when each is taken modulo 256:
\* t1 = (x - mb) mod 256, t2 = t1 XOR mc, (t2 + ma) mod 256; it is in 0..255.
C10_ThreeStepsMod256 ==
    pc = "Stored" =>
        LET t1 == (sample[1] - sample[2]) % 256
            t2 == BitOp(XorBit, t1, sample[3], 8)
        IN  /\ stored = (t2 + sample[4]) % 256
            /\ stored \in Byte

\* A byte stored from a negative difference: (((1 - 2) XOR 255) + 2) AND 0xFF
\* = 2.
C10_Witness ==
    /\ pc = "Stored"
    /\ sample = <<1, 2, 255, 2>>
    /\ stored = 2

\* ------------------------------------------------------------------------
\* C11: in every round k of CreateMask (k in 0..1023), with t0 and r1 the
\* running words at the start of the round, the running words after it are
\* seed0 = (RotateLeft(r1 XOR 0xF7654321, 25) + t0) mod 2^32 and
\* seed1 = RotateLeft(t0, 29), and the round writes mask[4k] = (t0 >> 3) & 0xFF,
\* mask[4k+1] = (t0 >> 11) & 0xFF, mask[4k+2] = (t0 >> 19) & 0xFF and
\* mask[4k+3] = (RotateLeft(t0, 29) >> 24) & 0xFF, the last from the updated
\* seed1, and no other byte of the mask.
C11_RoundWordsAndBytes ==
    [][(pc = "CreateMaskLoop" /\ rounds' = rounds + 1) =>
        LET t0 == seed0
            r1 == seed1
            k == rounds
        IN  /\ k \in 0..((MASK_SIZE \div 4) - 1)
            /\ seed0' = Add32(rol32(Xor32(r1, MaskXor), 25), t0)
            /\ seed1' = rol32(t0, 29)
            /\ Len(mask') = MASK_SIZE
            /\ At(mask', 4 * k) = AndFF(Shr32(t0, 3))
            /\ At(mask', 4 * k + 1) = AndFF(Shr32(t0, 11))
            /\ At(mask', 4 * k + 2) = AndFF(Shr32(t0, 19))
            /\ At(mask', 4 * k + 3) = AndFF(Shr32(rol32(t0, 29), 24))
            /\ Prefix(mask', 4 * k) = Prefix(mask, 4 * k)
            /\ SubSeq(mask', 4 * k + 5, MASK_SIZE) = SubSeq(mask, 4 * k + 5, MASK_SIZE)
    ]_vars

\* After the first round on the key {0x12345678, 1}: the fourth byte is
\* (RotateLeft(0x12345678, 29) >> 24) & 0xFF = 2, where the starting Seed1
\* would give (1 >> 24) & 0xFF = 0; the first three are 0xCF, 0x8A, 0x46.
C11_Witness ==
    /\ pc = "CreateMaskLoop"
    /\ rounds = 1
    /\ key = [Seed0 |-> WordFromBytes(18, 52, 86, 120), Seed1 |-> WordFromBytes(0, 0, 0, 1)]
    /\ Prefix(mask, 4) = <<207, 138, 70, 2>>
    /\ seed1 = WordFromBytes(2, 70, 138, 207)
    /\ AndFF(Shr32(key.Seed1, 24)) = 0

\* ------------------------------------------------------------------------
\* The inverse transform the claim gives:
\* x = ((((p - mask[a]) mod 256) XOR mask[c]) + mask[b]) mod 256.
InverseTransform(p, mb, mc, ma) ==
    (BitOp(XorBit, (p - ma) % 256, mc, 8) + mb) % 256

\* The inverse transform applied at every position of buf, with the index
\* sequence a_j = 7j, b_j = 7j + 1, c_j = 3j (mod 4096) of Decrypt.
Inverted(buf, m) ==
    [j \in 1..Len(buf) |->
        InverseTransform(buf[j], At(m, (7 * (j - 1) + 1) % MASK_SIZE),
                         At(m, (3 * (j - 1)) % MASK_SIZE),
                         At(m, (7 * (j - 1)) % MASK_SIZE))]

\* The buffers of the length of buf that differ from it in one byte, the
\* byte taken from SampleBytes.
OneByteOff(buf) ==
    {[buf EXCEPT ![j] = v] : j \in 1..Len(buf), v \in SampleBytes} \ {buf}

\* C12: what Decrypt did at each position is a bijection on 0..255 (with the
\* mask bytes of that position it maps 0..255 into 0..255 and the inverse
\* transform takes every image back to the byte it came from; every byte is
\* tried at the first FullBytePositions positions, the sample bytes further
\* on),
\* Decrypt keeps the length, the inverse transform applied at each position
\* of its output with the same mask and index sequence restores the buffer it
\* was given, and a different buffer of that length decodes to a different
\* output under the same key.
C12_DecryptInvertible ==
    pc = "done" =>
        LET m == Mask8(key)
            ct == Ciphertext
        IN  /\ Len(result) = Len(ct)
            /\ \A j \in 0..(Len(ct) - 1) :
                 LET mb == At(m, (7 * j + 1) % MASK_SIZE)
                     mc == At(m, (3 * j) % MASK_SIZE)
                     ma == At(m, (7 * j) % MASK_SIZE)
                 IN  \A x \in (IF j < FullBytePositions THEN Byte ELSE SampleBytes) :
                       LET p == Transform(x, mb, mc, ma)
                       IN  p \in Byte /\ InverseTransform(p, mb, mc, ma) = x
            /\ Inverted(result, m) = ct
            /\ Len(ct) <= MaxShortLen =>
                 \A other \in OneByteOff(ct) : Decrypt(other, m) # result

\* The long file decoded: its 1400 bytes restored from the output, which
\* differs from them.
C12_Witness ==
    /\ pc = "done"
    /\ file = LongFile
    /\ Len(result) = LongLen
    /\ result # Ciphertext
    /\ Inverted(result, Mask8(key)) = Ciphertext

====
